---- MODULE Spec2Model ----
(***************************************************************************)
(* ZOMP command-and-control: the agent (zompie.py) and the controller      *)
(* (zomp_cnc.py).  Text on the wire is a sequence of one-character         *)
(* strings; a Python str/bytes value is such a sequence.  Python's None is *)
(* the value None, str.find's -1 is 0 here (sequences are 1-based).        *)
(***************************************************************************)
EXTENDS Integers, Sequences, FiniteSets, TLC

VARIABLES
    \* ---- agent (zompie.py main) ----
    buffer,       \* the ZOMPRequestBuffer object: buf, code, command, script_invocation, args, filepath
    processes,    \* dict: script invocation -> index of the Process object in procs
    reports,      \* manager.dict(): script invocation -> report bytes
    procs,        \* every multiprocessing.Process the agent has started, in start order:
                  \* [key, args, state, result], state "running" (in check_output),
                  \* "stored" (result_dict written, not yet exited) or "dead"; result is
                  \* <<output>> once check_output has returned, <<>> before and when dead
    sent,         \* what the serve loop's latest step wrote to the socket, in order
    zompie_pc,    \* "serving" | "exited" (exit(1) on CLOSE) | "crashed" (unhandled exception)
    inbox,        \* bytes the controller has written that the agent has not yet received
    \* ---- controller receiver task (zomp_cnc.py handleResponses) ----
    wire,         \* bytes the agent has written that the receiver has not yet received
    rbuffer,      \* the ZOMPResponseBuffer object: buf, code, status_message, script_invocation, num_chars
    recv_pc,      \* where the receiver blocks: "header" (line 30) | "body" (line 72), or
                  \* "crashed" (unhandled exception) | "ended" (handleResponses returned)
    files,        \* report sink: script invocation -> text last written to "<addr> <invocation>.txt"
    rsent,        \* what the receiver has written back to the agent (ACCEPT / NOT UNDERSTOOD), in order
    returned,     \* one record per msg bufferMessages has returned to handleResponses:
                  \* [script_invocation, num_chars, had, msg, kept]: the buffer at the
                  \* return, the value returned, the buffer handleResponses goes on with
    \* ---- controller main loop (zomp_cnc.py main) ----
    zombies,      \* the registry: list of Zombie objects [sock, process]: the connection's
                  \* index in conns, the receiver process "started" | "terminated"
    conns,        \* the accepted connections: [peer, closed, out]: "open" | "closed" at the
                  \* agent's end, closed at the controller's end?, the messages written to it
    welcome_sock, \* "listening" | "closed"
    cnc_pc,       \* "running" | "exited" (exit(1)) | "crashed" (unhandled exception)
    ncmd          \* number of console lines read so far

agent_vars == <<buffer, processes, reports, procs, sent, zompie_pc, inbox>>
recv_vars  == <<wire, rbuffer, recv_pc, files, rsent, returned>>
cnc_vars   == <<zombies, conns, welcome_sock, cnc_pc, ncmd>>
vars == <<agent_vars, recv_vars, cnc_vars>>

None == "None"

\* ---- bounds of the model ----
MaxProcs == 2     \* Process objects the agent starts in one run
MaxConns == 3     \* connections the controller accepts in one run
MaxCmds  == 3     \* console lines the controller reads in one run
MaxChunk == 3     \* bytes one sock.recv of the receiver task returns at most

(***************************************************************************)
(* Python str operations, as the code uses them.                           *)
(***************************************************************************)
Min(S) == CHOOSE x \in S : \A y \in S : x <= y

\* str.find(sub): the first index where sub occurs, 0 when it does not.
Find(s, sub) ==
    LET I == { i \in 1..(Len(s) - Len(sub) + 1) : SubSeq(s, i, i + Len(sub) - 1) = sub }
    IN IF I = {} THEN 0 ELSE Min(I)

\* str.split(sep, maxsplit); maxsplit = -1 is "no limit".
RECURSIVE Split(_, _, _)
Split(s, sep, maxsplit) ==
    LET i == Find(s, sep)
    IN IF maxsplit = 0 \/ i = 0
       THEN <<s>>
       ELSE <<SubSeq(s, 1, i - 1)>> \o Split(SubSeq(s, i + Len(sep), Len(s)), sep, maxsplit - 1)

Whitespace == {" ", "\t", "\n", "\r", "\f"}

\* str.strip()
RECURSIVE Strip(_)
Strip(s) ==
    IF s = <<>> THEN s
    ELSE IF s[1] \in Whitespace THEN Strip(Tail(s))
    ELSE IF s[Len(s)] \in Whitespace THEN Strip(SubSeq(s, 1, Len(s) - 1))
    ELSE s

\* sep.join(parts)
RECURSIVE Join(_, _)
Join(sep, parts) ==
    IF parts = <<>> THEN <<>>
    ELSE IF Len(parts) = 1 THEN parts[1]
    ELSE parts[1] \o sep \o Join(sep, Tail(parts))

Digits == <<"0", "1", "2", "3", "4", "5", "6", "7", "8", "9">>

\* str(n) for n >= 0
RECURSIVE IntToStr(_)
IntToStr(n) ==
    IF n < 10 THEN <<Digits[n + 1]>>
    ELSE IntToStr(n \div 10) \o <<Digits[(n % 10) + 1]>>

IsDigit(c) == \E d \in 1..10 : Digits[d] = c
DigitVal(c) == (CHOOSE d \in 1..10 : Digits[d] = c) - 1

\* int(s) for an unsigned decimal: the number, or -1 where Python raises ValueError
\* (signs and digit separators, which int() also accepts, are not on this wire).
\* int() accepts surrounding whitespace and needs at least one digit.
RECURSIVE DigitsToInt(_, _)
DigitsToInt(s, acc) ==
    IF s = <<>> THEN acc ELSE DigitsToInt(Tail(s), acc * 10 + DigitVal(s[1]))

StrToInt(s) ==
    LET t == Strip(s)
    IN IF t # <<>> /\ \A i \in 1..Len(t) : IsDigit(t[i]) THEN DigitsToInt(t, 0) ELSE -1

\* The one character outside ASCII that occurs in these runs, U+00E9, and the two
\* bytes of its UTF-8 encoding.  Every other element of a text is an ASCII
\* character, which is its own byte.
E_ACUTE == "U+00E9"
BYTE_C3 == "0xC3"
BYTE_A9 == "0xA9"

\* str.encode(): UTF-8.  ASCII text is its own encoding; each U+00E9 becomes its
\* two bytes.
RECURSIVE encode(_)
encode(s) ==
    LET I == { i \in DOMAIN s : s[i] = E_ACUTE }
    IN IF I = {} THEN s
       ELSE SubSeq(s, 1, Min(I) - 1) \o <<BYTE_C3, BYTE_A9>>
            \o encode(SubSeq(s, Min(I) + 1, Len(s)))

\* bytes.decode(): UTF-8, errors="strict": [ok, val], ok = FALSE where Python raises
\* UnicodeDecodeError (a lead byte with no continuation byte after it, a
\* continuation byte with no lead byte before it); val has one character for each
\* ASCII byte and one for each pair of lead and continuation byte.
decode(data) ==
    [ok |-> \A i \in DOMAIN data :
                /\ data[i] = BYTE_C3 => (i < Len(data) /\ data[i + 1] = BYTE_A9)
                /\ data[i] = BYTE_A9 => (i > 1 /\ data[i - 1] = BYTE_C3),
     val |-> SelectSeq([i \in DOMAIN data |-> IF data[i] = BYTE_C3 THEN E_ACUTE ELSE data[i]],
                       LAMBDA c : c # BYTE_A9)]

\* dict operations
Put(d, k, v) == [x \in (DOMAIN d) \cup {k} |-> IF x = k THEN v ELSE d[x]]
Del(d, k) == [x \in (DOMAIN d) \ {k} |-> d[x]]
EmptyDict == [x \in {} |-> None]

CRLF == <<"\r", "\n">>
signal == <<"\r", "\n", "\r", "\n">>
Version == <<"Z", "O", "M", "P", "/", "1", ".", "0">>

(***************************************************************************)
(* The controller's encoders and fixed messages: zomp_cnc.py               *)
(***************************************************************************)
ACCEPT_MSG == Version \o <<" ", "0", " ", "A", "C", "C", "E", "P", "T">> \o signal
CLOSE_MSG == Version \o <<" ", "9", " ", "C", "L", "O", "S", "E">> \o signal
NOT_UNDERSTOOD == Version \o <<" ", "5", " ", "N", "O", "T", " ", "U", "N", "D", "E", "R", "S", "T", "O", "O", "D">> \o signal

\* ZOMPResponseBuffer.__init__
ZOMPResponseBuffer ==
    [buf |-> <<>>, code |-> <<>>, status_message |-> <<>>, script_invocation |-> <<>>,
     num_chars |-> 0]

\* the console commands that reach makeZOMPRequest (after command.casefold())
Commands == {"run", "stop", "report"}

\* command.upper()
upper(command) ==
    CASE command = "run" -> <<"R", "U", "N">>
      [] command = "stop" -> <<"S", "T", "O", "P">>
      [] command = "report" -> <<"R", "E", "P", "O", "R", "T">>

\* makeZOMPRequest(command, script_invocation)
makeZOMPRequest(command, script_invocation) ==
    LET code == CASE command = "run" -> <<"1">>
                  [] command = "stop" -> <<"2">>
                  [] command = "report" -> <<"3">>
    IN Version \o <<" ">> \o code \o <<" ">> \o upper(command) \o CRLF
       \o script_invocation \o CRLF
       \o CRLF

\* the script invocations typed at the console: two invocations of the script
\* "a" that differ in their arguments, and one of a script that does not exist
Invocations == { <<"a">>, <<"a", " ", "1">>, <<"n">> }

(***************************************************************************)
(* The agent: zompie.py                                                    *)
(***************************************************************************)
\* Files that exist in the agent's working directory (os.path.exists).
Files == { <<"a">> }
path_exists_any(filepath) == TRUE

path_exists(filepath) == filepath = <<".", "/">> \/ \E f \in Files : filepath = <<".", "/">> \o f

\* What subprocess.check_output can return for a script that exits with status 0.
Outputs == { <<"h", "i", "\n">>, <<>> }

Bad_request == <<"B", "a", "d", " ", "r", "e", "q", "u", "e", "s", "t">>
Script_not_found == <<"S", "c", "r", "i", "p", "t", " ", "n", "o", "t", " ", "f", "o", "u", "n", "d">>
Msg11 == <<"I", "g", "n", "o", "r", "e", ",", " ", "s", "c", "r", "i", "p", "t", " ", "a", "l", "r", "e", "a", "d", "y", " ", "r", "u", "n", "n", "i", "n", "g">>
Msg12 == <<"O", "K", ",", " ", "r", "e", "t", "u", "r", "n", "i", "n", "g", " ", "e", "x", "i", "s", "t", "i", "n", "g", " ", "r", "e", "p", "o", "r", "t">>
Msg10 == <<"O", "K", ",", " ", "r", "u", "n", "n", "i", "n", "g", " ", "s", "c", "r", "i", "p", "t">>
Msg20 == <<"O", "K", ",", " ", "s", "t", "o", "p", "p", "i", "n", "g", " ", "s", "c", "r", "i", "p", "t">>
Msg22 == <<"I", "g", "n", "o", "r", "e", ",", " ", "s", "c", "r", "i", "p", "t", " ", "c", "o", "m", "p", "l", "e", "t", "e", "d", " ", "r", "u", "n", "n", "i", "n", "g">>
Msg21 == <<"I", "g", "n", "o", "r", "e", ",", " ", "s", "c", "r", "i", "p", "t", " ", "n", "o", "t", " ", "c", "u", "r", "r", "e", "n", "t", "l", "y", " ", "r", "u", "n", "n", "i", "n", "g">>
Msg31 == <<"N", "o", " ", "r", "e", "p", "o", "r", "t", ",", " ", "w", "a", "i", "t", "i", "n", "g", " ", "o", "n", " ", "c", "o", "m", "p", "l", "e", "t", "i", "o", "n">>
Msg30 == <<"O", "K", ",", " ", "r", "e", "p", "o", "r", "t", "i", "n", "g">>
Msg32 == <<"N", "o", " ", "r", "e", "p", "o", "r", "t", ",", " ", "n", "o", "t", " ", "r", "u", "n", "n", "i", "n", "g", " ", "s", "c", "r", "i", "p", "t">>
Content_Length == <<"C", "o", "n", "t", "e", "n", "t", "-", "L", "e", "n", "g", "t", "h", ":", " ">>

\* makeZOMPResponse(code, status_message, script_invocation="", report="")
makeZOMPResponse(code, status_message, script_invocation, report) ==
    LET status == <<"Z", "O", "M", "P", "/">> \o <<"1", ".", "0">> \o <<" ">> \o code \o <<" ">>
                  \o status_message \o CRLF
        entity == IF code[1] # "0"
                  THEN script_invocation \o CRLF \o Content_Length \o IntToStr(Len(report)) \o CRLF
                  ELSE <<>>
    IN encode(status) \o encode(entity) \o CRLF \o (IF report # <<>> THEN report ELSE <<>>)

\* ZOMPRequestBuffer.__init__
ZOMPRequestBuffer ==
    [buf |-> <<>>, code |-> <<>>, command |-> <<>>, script_invocation |-> <<>>,
     args |-> <<>>, filepath |-> <<>>]

Resp01_no_message == makeZOMPResponse(<<"0", "1">>, <<>>, <<>>, <<>>)
Resp01 == makeZOMPResponse(<<"0", "1">>, Bad_request, <<>>, <<>>)
Resp02 == makeZOMPResponse(<<"0", "2">>, Script_not_found, <<>>, <<>>)

RetLoop == [kind |-> "loop", val |-> <<>>]      \* no header terminator yet: back to sock.recv
RetNone == [kind |-> "none", val |-> <<>>]      \* return None
RetStr(s) == [kind |-> "str", val |-> s]         \* return self.script_invocation
RetRaise == [kind |-> "raise", val |-> <<>>]    \* an exception that nothing catches

\* ZOMPRequestBuffer.bufferMessages from the sock.recv that returned `data` (len > 0)
\* to its return, or to the next sock.recv: [buffer, out, ret] where out is what it
\* sent on the socket.
bufferMessages(b, data) ==
    LET decoded == decode(data)
        buf1 == b.buf \o decoded.val
        signal_index == Find(buf1, signal)
    IN IF ~decoded.ok       \* UnicodeDecodeError at line 30
       THEN [buffer |-> b, out |-> <<>>, ret |-> RetRaise]
       ELSE IF signal_index = 0
       THEN [buffer |-> [b EXCEPT !.buf = buf1], out |-> <<>>, ret |-> RetLoop]
       ELSE
        LET header == SubSeq(buf1, 1, signal_index - 1)
            rest == SubSeq(buf1, signal_index + Len(signal), Len(buf1))
            lines == Split(header, CRLF, -1)
            request_line == lines[1]
            script_line == Tail(lines)
            fields == Split(Strip(request_line), <<" ">>, 2)
            b0 == [b EXCEPT !.buf = rest]
        IN IF Len(fields) # 3      \* ValueError on unpacking
           THEN [buffer |-> b0, out |-> <<Resp01>>, ret |-> RetNone]
           ELSE
            LET code == fields[2]
                b1 == [b0 EXCEPT !.code = code, !.command = fields[3]]
            IN IF code # <<"9">> /\ code # <<"0">> /\ script_line = <<>>
               THEN [buffer |-> b1, out |-> <<Resp01>>, ret |-> RetNone]
               ELSE IF code \in { <<"9">>, <<"5">>, <<"0">> }
               THEN [buffer |-> b1, out |-> <<>>, ret |-> RetNone]
               ELSE IF code \in { <<"1">>, <<"2">>, <<"3">> }
               THEN
                LET script_invocation == Join(<<" ">>, script_line)
                    args0 == Split(script_invocation, <<" ">>, -1)
                    scriptname == args0[1]
                    b2 == [b1 EXCEPT !.script_invocation = script_invocation,
                                     !.args = <<(<<".", "/">> \o scriptname)>> \o Tail(args0),
                                     !.filepath = <<".", "/">> \o scriptname]
                IN IF ~path_exists(b2.filepath)
                   THEN [buffer |-> b2, out |-> <<Resp02>>, ret |-> RetNone]
                   ELSE [buffer |-> b2, out |-> <<>>, ret |-> RetStr(script_invocation)]
               ELSE [buffer |-> b1, out |-> <<>>, ret |-> RetStr(b1.script_invocation)]

is_alive_never(p) == FALSE

\* Process.is_alive()
is_alive(p) == procs[p].state # "dead"

\* Process.terminate() on each process of the set P (SIGTERM; none for a dead one)
terminate(P) ==
    [p \in DOMAIN procs |->
        IF p \in P THEN [procs[p] EXCEPT !.state = "dead", !.result = <<>>] ELSE procs[p]]

\* multiprocessing.Process(target=storeResult, args=(script_invocation, args, reports))
Process(script_invocation, args) ==
    [key |-> script_invocation, args |-> args, state |-> "running", result |-> <<>>]

main_RUN_no_body(script_invocation) ==
    IF script_invocation \in DOMAIN processes /\ is_alive(processes[script_invocation])
    THEN /\ sent' = <<makeZOMPResponse(<<"1", "1">>, Msg11, script_invocation, <<>>)>>
         /\ UNCHANGED <<processes, reports, procs, zompie_pc>>
    ELSE /\ Len(procs) < MaxProcs
         /\ sent' = IF script_invocation \in DOMAIN reports
                    THEN <<makeZOMPResponse(<<"1", "2">>, Msg12, script_invocation, <<>>)>>
                    ELSE <<makeZOMPResponse(<<"1", "0">>, Msg10, script_invocation, <<>>)>>
         /\ procs' = Append(procs, Process(script_invocation, buffer'.args))
         /\ processes' = Put(processes, script_invocation, Len(procs) + 1)
         /\ UNCHANGED <<reports, zompie_pc>>

\* main, case "1": RUN
main_RUN(script_invocation) ==
    IF script_invocation \in DOMAIN processes /\ is_alive(processes[script_invocation])
    THEN /\ sent' = <<makeZOMPResponse(<<"1", "1">>, Msg11, script_invocation, <<>>)>>
         /\ UNCHANGED <<processes, reports, procs, zompie_pc>>
    ELSE /\ Len(procs) < MaxProcs
         /\ sent' = IF script_invocation \in DOMAIN reports
                    THEN <<makeZOMPResponse(<<"1", "2">>, Msg12, script_invocation,
                                            reports[script_invocation])>>
                    ELSE <<makeZOMPResponse(<<"1", "0">>, Msg10, script_invocation, <<>>)>>
         /\ procs' = Append(procs, Process(script_invocation, buffer'.args))
         /\ processes' = Put(processes, script_invocation, Len(procs) + 1)
         /\ UNCHANGED <<reports, zompie_pc>>

main_STOP_no_del(script_invocation) ==
    IF script_invocation \in DOMAIN processes /\ is_alive(processes[script_invocation])
    THEN /\ procs' = terminate({processes[script_invocation]})
         /\ sent' = <<makeZOMPResponse(<<"2", "0">>, Msg20, script_invocation, <<>>)>>
         /\ UNCHANGED <<processes, reports, zompie_pc>>
    ELSE /\ sent' = IF script_invocation \in DOMAIN reports
                    THEN <<makeZOMPResponse(<<"2", "2">>, Msg22, script_invocation, <<>>)>>
                    ELSE <<makeZOMPResponse(<<"2", "1">>, Msg21, script_invocation, <<>>)>>
         /\ UNCHANGED <<processes, reports, procs, zompie_pc>>

\* main, case "2": STOP
main_STOP(script_invocation) ==
    IF script_invocation \in DOMAIN processes /\ is_alive(processes[script_invocation])
    THEN /\ procs' = terminate({processes[script_invocation]})
         /\ sent' = <<makeZOMPResponse(<<"2", "0">>, Msg20, script_invocation, <<>>)>>
         /\ processes' = Del(processes, script_invocation)
         /\ UNCHANGED <<reports, zompie_pc>>
    ELSE /\ sent' = IF script_invocation \in DOMAIN reports
                    THEN <<makeZOMPResponse(<<"2", "2">>, Msg22, script_invocation, <<>>)>>
                    ELSE <<makeZOMPResponse(<<"2", "1">>, Msg21, script_invocation, <<>>)>>
         /\ UNCHANGED <<processes, reports, procs, zompie_pc>>

\* main, case "3": REPORT.  reports[script_invocation] raises KeyError when the
\* dead process wrote no report; nothing catches it.
main_REPORT(script_invocation) ==
    IF script_invocation \in DOMAIN processes
    THEN IF is_alive(processes[script_invocation])
         THEN /\ sent' = <<makeZOMPResponse(<<"3", "1">>, Msg31, script_invocation, <<>>)>>
              /\ UNCHANGED <<processes, reports, procs, zompie_pc>>
         ELSE IF script_invocation \in DOMAIN reports
         THEN /\ sent' = <<makeZOMPResponse(<<"3", "0">>, Msg30, script_invocation,
                                            reports[script_invocation])>>
              /\ UNCHANGED <<processes, reports, procs, zompie_pc>>
         ELSE /\ sent' = <<>>
              /\ zompie_pc' = "crashed"
              /\ UNCHANGED <<processes, reports, procs>>
    ELSE /\ sent' = <<makeZOMPResponse(<<"3", "2">>, Msg32, script_invocation, <<>>)>>
         /\ UNCHANGED <<processes, reports, procs, zompie_pc>>

main_CLOSE_keeps_tasks ==
    /\ zompie_pc' = "exited"
    /\ sent' = <<>>
    /\ UNCHANGED <<processes, reports, procs>>

\* main, elif buffer.code == "9": terminate every process of the table, close, exit(1)
main_CLOSE ==
    /\ procs' = terminate({ processes[k] : k \in DOMAIN processes })
    /\ zompie_pc' = "exited"
    /\ sent' = <<>>
    /\ UNCHANGED <<processes, reports>>

\* One turn of main's while loop for a sock.recv that returned `data`:
\* bufferMessages up to its return (each sock.recv is a step of its own), then the
\* dispatch on buffer.code.
main_loop(data) ==
    /\ zompie_pc = "serving"
    /\ LET r == bufferMessages(buffer, data)
       IN /\ buffer' = r.buffer
          /\ IF r.ret.kind = "str" /\ r.ret.val # <<>>
             THEN IF r.buffer.code = <<"1">> THEN main_RUN(r.ret.val)
                  ELSE IF r.buffer.code = <<"2">> THEN main_STOP(r.ret.val)
                  ELSE IF r.buffer.code = <<"3">> THEN main_REPORT(r.ret.val)
                  ELSE /\ sent' = r.out
                       /\ UNCHANGED <<processes, reports, procs, zompie_pc>>
             ELSE IF r.ret.kind = "raise"
             THEN /\ sent' = r.out
                  /\ zompie_pc' = "crashed"
                  /\ UNCHANGED <<processes, reports, procs>>
             ELSE IF r.ret.kind # "loop" /\ r.buffer.code = <<"9">>
             THEN main_CLOSE
             ELSE /\ sent' = r.out
                  /\ UNCHANGED <<processes, reports, procs, zompie_pc>>

\* a turn of the loop whose sock.recv returns the whole message `data`
Serve(data) ==
    /\ main_loop(data)
    /\ UNCHANGED <<inbox, recv_vars, cnc_vars>>

\* a turn of the loop whose sock.recv returns the next n bytes of the connection
AgentRecv(n) ==
    /\ n \in 1..Len(inbox)
    /\ inbox' = SubSeq(inbox, n + 1, Len(inbox))
    /\ main_loop(SubSeq(inbox, 1, n))
    /\ UNCHANGED <<recv_vars, cnc_vars>>

\* the bytes of a list of messages, in order
RECURSIVE Concat(_)
Concat(msgs) == IF msgs = <<>> THEN <<>> ELSE msgs[1] \o Concat(Tail(msgs))

\* the same turn on a connection whose other end is followed: what the turn sends
\* is on its way to the controller
AgentTurn(n) ==
    /\ n \in 1..Len(inbox)
    /\ inbox' = SubSeq(inbox, n + 1, Len(inbox))
    /\ main_loop(SubSeq(inbox, 1, n))
    /\ wire' = wire \o Concat(sent')
    /\ UNCHANGED <<rbuffer, recv_pc, files, rsent, returned, cnc_vars>>

\* storeResult, line 98: check_output returned `output` (exit status 0) and the
\* assignment to result_dict is done; the process has not exited yet.
storeResult(p, output) ==
    /\ procs[p].state = "running"
    /\ reports' = Put(reports, procs[p].key, output)
    /\ procs' = [procs EXCEPT ![p].state = "stored", ![p].result = <<output>>]
    /\ UNCHANGED <<buffer, processes, sent, zompie_pc, inbox, recv_vars, cnc_vars>>

\* The process of a finished storeResult exits.
ProcessExit(p) ==
    /\ procs[p].state = "stored"
    /\ procs' = [procs EXCEPT ![p].state = "dead", ![p].result = <<>>]
    /\ UNCHANGED <<buffer, processes, reports, sent, zompie_pc, inbox, recv_vars, cnc_vars>>

\* storeResult, line 98: check_output raises (CalledProcessError on a non-zero exit
\* status, OSError when the script cannot be executed); the process dies and
\* result_dict is not written.
storeResultRaises(p) ==
    /\ procs[p].state = "running"
    /\ procs' = [procs EXCEPT ![p].state = "dead"]
    /\ UNCHANGED <<buffer, processes, reports, sent, zompie_pc, inbox, recv_vars, cnc_vars>>

(***************************************************************************)
(* The agent's runs: whole messages arrive, one per sock.recv.             *)
(***************************************************************************)
\* requests whose status line does not split into three fields
MalformedRequests == { Version \o <<" ", "1">> \o signal, <<"R", "U", "N">> \o CRLF \o <<"a">> \o signal }
\* requests of another code than 0 and 9 with no line after the status line
NoInvocationRequests ==
    { Version \o <<" ">> \o c \o <<" ", "X">> \o signal : c \in { <<"1">>, <<"2">>, <<"3">>, <<"7">> } }
\* a request of a code the agent does not know, with an invocation line
UnknownRequests == { Version \o <<" ", "7", " ", "X">> \o CRLF \o <<"a">> \o signal }

Requests ==
    { makeZOMPRequest(c, i) : c \in Commands, i \in Invocations }
    \cup { ACCEPT_MSG, CLOSE_MSG, NOT_UNDERSTOOD }
    \cup MalformedRequests \cup NoInvocationRequests \cup UnknownRequests

InitAgent ==
    /\ buffer = ZOMPRequestBuffer
    /\ processes = EmptyDict
    /\ reports = EmptyDict
    /\ procs = <<>>
    /\ sent = <<>>
    /\ zompie_pc = "serving"
    /\ inbox = <<>>

InitRecv ==
    /\ wire = <<>>
    /\ rbuffer = ZOMPResponseBuffer
    /\ recv_pc = "header"
    /\ files = EmptyDict
    /\ rsent = <<>>
    /\ returned = <<>>

InitCnc ==
    /\ zombies = <<>>
    /\ conns = <<>>
    /\ welcome_sock = "listening"
    /\ cnc_pc = "running"
    /\ ncmd = 0

Init == InitAgent /\ InitRecv /\ InitCnc

NextAgent ==
    \/ \E data \in Requests : Serve(data)
    \/ \E p \in DOMAIN procs : \E output \in Outputs : storeResult(p, output)
    \/ \E p \in DOMAIN procs : ProcessExit(p)
    \/ \E p \in DOMAIN procs : storeResultRaises(p)

SpecAgent == Init /\ [][NextAgent]_vars

(***************************************************************************)
(* Properties of the agent                                                 *)
(***************************************************************************)
\* the code and the body of an encoded response, read back off its bytes
RespCode(m) == Split(Split(m, CRLF, 1)[1], <<" ">>, 2)[2]
RespBody(m) == SubSeq(m, Find(m, signal) + Len(signal), Len(m))
OneReply(code) == Len(sent') = 1 /\ RespCode(sent'[1]) = code

\* the invocations whose script exists / does not exist
Existing == { i \in Invocations : Split(i, <<" ">>, -1)[1] \in Files }
Missing == Invocations \ Existing

\* the live processes of the agent that run invocation k
Alive(k) == { p \in DOMAIN procs : procs[p].key = k /\ procs[p].state # "dead" }
AliveNext(k) == { p \in DOMAIN procs' : procs'[p].key = k /\ procs'[p].state # "dead" }

C2_OneTaskPerKey ==
    /\ [](\A k \in Invocations : Cardinality(Alive(k)) <= 1)
    /\ [][ \A k \in Existing :
            (Alive(k) # {} /\ Serve(makeZOMPRequest("run", k))) =>
                /\ OneReply(<<"1", "1">>)
                /\ UNCHANGED <<processes, reports, procs>>
         ]_vars

\* RUN was answered 11 while a task of the key was live
C2_Witness ==
    /\ Len(sent) = 1 /\ RespCode(sent[1]) = <<"1", "1">>
    /\ Cardinality(Alive(buffer.script_invocation)) = 1

\* C3 (as claimed): every REPORT for an existing script gets exactly one reply:
\* 31 when the key's task is live, else 30 with the cached bytes when ReportCache
\* holds a report for the key, else 32.
C3_ReportReply ==
    [][ \A k \in Existing :
            Serve(makeZOMPRequest("report", k)) =>
                IF Alive(k) # {} THEN OneReply(<<"3", "1">>)
                ELSE IF k \in DOMAIN reports
                THEN OneReply(<<"3", "0">>) /\ RespBody(sent'[1]) = reports[k]
                ELSE OneReply(<<"3", "2">>)
      ]_vars

\* C4: a STOP for an existing script whose task is live terminates the task,
\* removes its table entry and is answered 20; otherwise it is answered 22 when
\* ReportCache holds a report for the key and 21 when not, and the task table,
\* the processes and ReportCache stay as they were.
C4_StopReply ==
    [][ \A k \in Existing :
            Serve(makeZOMPRequest("stop", k)) =>
                IF Alive(k) # {}
                THEN /\ OneReply(<<"2", "0">>)
                     /\ AliveNext(k) = {}
                     /\ k \notin DOMAIN processes'
                     /\ \A j \in (DOMAIN processes) \ {k} :
                            j \in DOMAIN processes' /\ processes'[j] = processes[j]
                     /\ \A j \in Invocations \ {k} : AliveNext(j) = Alive(j)
                     /\ reports' = reports
                ELSE /\ OneReply(IF k \in DOMAIN reports THEN <<"2", "2">> ELSE <<"2", "1">>)
                     /\ UNCHANGED <<processes, reports, procs>>
      ]_vars

\* STOP was answered 20: the key has left the table, its task is dead, and the
\* task of another key is still live
C4_Witness ==
    /\ Len(sent) = 1 /\ RespCode(sent[1]) = <<"2", "0">>
    /\ buffer.script_invocation \notin DOMAIN processes
    /\ Alive(buffer.script_invocation) = {}
    /\ \E j \in DOMAIN processes : Alive(j) # {}

\* the first task ever started for its key: ReportCache held nothing for the key
\* when RUN started it (only tasks of a key write the key's entry)
FirstFor(p) == \A q \in 1..(p - 1) : procs[q].key # procs[p].key

\* C5 (as claimed): for a key with no prior cache entry, a STOP answered 20 leaves
\* ReportCache without an entry for the key, and a REPORT that follows (the key is
\* out of the task table) is answered 32.
C5_StopNeverCaches ==
    [][ \A k \in Existing :
          /\ ( /\ k \in DOMAIN processes /\ FirstFor(processes[k])
               /\ Serve(makeZOMPRequest("stop", k))
               /\ OneReply(<<"2", "0">>) )
             => k \notin DOMAIN reports'
          /\ (k \notin DOMAIN processes /\ Serve(makeZOMPRequest("report", k)))
             => OneReply(<<"3", "2">>)
      ]_vars

\* C8: a RUN, STOP or REPORT whose script file does not exist is answered 02, the
\* task table, the processes and ReportCache stay as they were, and the agent
\* keeps serving.
C8_ScriptNotFound ==
    [][ \A c \in Commands : \A k \in Missing :
            Serve(makeZOMPRequest(c, k)) =>
                /\ OneReply(<<"0", "2">>)
                /\ UNCHANGED <<processes, reports, procs>>
                /\ zompie_pc' = "serving"
      ]_vars

\* 02 was the reply while a task was live and ReportCache was not empty
C8_Witness ==
    /\ sent = <<Resp02>>
    /\ \E k \in DOMAIN processes : Alive(k) # {}
    /\ DOMAIN reports # {}
    /\ zompie_pc = "serving"

\* C9 (as claimed): a request with a malformed status line, or a code 1/2/3 request
\* with no invocation line, is answered 01, changes neither the task table nor
\* ReportCache and leaves the agent serving; and the serve loop ends on CLOSE only
\* (a peer disconnect is no step of these runs).
BadRequests ==
    MalformedRequests
    \cup { r \in NoInvocationRequests : RespCode(r) \in { <<"1">>, <<"2">>, <<"3">> } }

C9_BadRequest ==
    [][ /\ \A data \in BadRequests :
            Serve(data) =>
                /\ OneReply(<<"0", "1">>)
                /\ UNCHANGED <<processes, reports, procs>>
                /\ zompie_pc' = "serving"
        /\ (zompie_pc = "serving" /\ zompie_pc' # "serving") => Serve(CLOSE_MSG)
      ]_vars

\* C11: the step that decodes CLOSE leaves no task of the agent alive and the
\* agent exited; every live task is the task-table entry of its key in every
\* reachable state (so the walk of the table reaches it); and once the agent has
\* exited no task it started is alive.
C11_CloseTerminatesAll ==
    /\ [][ Serve(CLOSE_MSG) =>
              /\ zompie_pc' = "exited"
              /\ \A p \in DOMAIN procs' : procs'[p].state = "dead"
              /\ \A p \in DOMAIN procs : procs'[p].key = procs[p].key
              /\ UNCHANGED <<processes, reports>>
         ]_vars
    /\ [](\A p \in DOMAIN procs :
            procs[p].state # "dead" =>
                procs[p].key \in DOMAIN processes /\ processes[procs[p].key] = p)
    /\ [](zompie_pc = "exited" => \A p \in DOMAIN procs : procs[p].state = "dead")

\* the agent has exited on CLOSE with the tasks of two keys in its table, both dead
\* and neither having stored a report
C11_Witness ==
    /\ zompie_pc = "exited"
    /\ reports = EmptyDict
    /\ \E j, k \in DOMAIN processes :
          /\ j # k
          /\ procs[processes[j]].state = "dead" /\ procs[processes[k]].state = "dead"

\* the state of invocation key k: Running while a task of the key is alive, else
\* Completed when ReportCache holds a report for the key, else Absent
KeyState(k) ==
    IF Alive(k) # {} THEN "Running"
    ELSE IF k \in DOMAIN reports THEN "Completed"
    ELSE "Absent"

\* C16 (as claimed): while the agent runs, the state of a key changes only from
\* Absent to Running by a RUN for the key, from Running to Completed by the exit of
\* the key's task that has written the cache, from Running to Absent by a STOP for
\* the key that writes no cache, and from Completed to Running by a RUN for the key.
C16_KeyStateMachine ==
    [][ zompie_pc' # "exited" =>
          \A k \in Invocations :
            LET from == KeyState(k)
                to == KeyState(k)'
            IN from # to =>
                \/ from = "Absent" /\ to = "Running" /\ Serve(makeZOMPRequest("run", k))
                \/ /\ from = "Running" /\ to = "Completed"
                   /\ \E p \in Alive(k) : ProcessExit(p) /\ procs[p].result = <<reports'[k]>>
                \/ /\ from = "Running" /\ to = "Absent"
                   /\ Serve(makeZOMPRequest("stop", k)) /\ reports' = reports
                \/ from = "Completed" /\ to = "Running" /\ Serve(makeZOMPRequest("run", k))
      ]_vars

\* C17 (as claimed): the agent that receives NOT UNDERSTOOD sends nothing, changes
\* neither the task table, the tasks nor ReportCache, and keeps serving.
C17_NotUnderstoodOnlyLogged ==
    [][ Serve(encode(NOT_UNDERSTOOD)) =>
            /\ sent' = <<>>
            /\ UNCHANGED <<processes, reports, procs>>
            /\ zompie_pc' = "serving"
      ]_vars

(***************************************************************************)
(* The controller's receiver task: zomp_cnc.py handleResponses and         *)
(* ZOMPResponseBuffer.bufferMessages                                        *)
(***************************************************************************)
READY_MSG == Version \o <<" ", "0", "0", " ">>
             \o <<"R", "e", "a", "d", "y", " ", "t", "o", " ", "b", "e", " ", "r", "e", "g", "i", "s", "t", "e", "r", "e", "d">>
             \o signal

\* bufferMessages from line 70 on, no sock.recv done yet: "msg" when the buffer
\* already holds num_chars characters (return self.buf), "body" when it blocks in
\* the sock.recv of line 72, "loop" when num_chars <= 0 (back to line 30).
entity_body(b) ==
    IF b.num_chars > 0
    THEN IF Len(b.buf) < b.num_chars THEN "body" ELSE "msg"
    ELSE "loop"

\* ZOMPResponseBuffer.bufferMessages, lines 29-68, from the sock.recv of line 30
\* that returned `data` (len > 0): [buffer, out, ret], out what it sent on the
\* socket, ret "loop" | "body" | "msg" as above or "raise" for an exception that
\* nothing catches.  A return None (lines 56, 60, 68, 49) brings handleResponses
\* straight back into bufferMessages, so it continues at line 29.
response_header(b, data) ==
    LET decoded == decode(data)
        buf1 == b.buf \o decoded.val
        signal_index == Find(buf1, signal)
    IN IF ~decoded.ok       \* UnicodeDecodeError at line 35
       THEN [buffer |-> b, out |-> <<>>, ret |-> "raise"]
       ELSE IF signal_index = 0
       THEN [buffer |-> [b EXCEPT !.buf = buf1], out |-> <<>>, ret |-> "loop"]
       ELSE
        LET header == SubSeq(buf1, 1, signal_index - 1)
            lines == Split(header, CRLF, -1)
            status_line == lines[1]
            rest_of_header == Tail(lines)
            fields == Split(Strip(status_line), <<" ">>, 2)
            b0 == [b EXCEPT !.buf = SubSeq(buf1, signal_index + Len(signal), Len(buf1))]
        IN IF Len(fields) # 3
           THEN [buffer |-> b0, out |-> <<encode(NOT_UNDERSTOOD)>>, ret |-> entity_body(b0)]
           ELSE
            LET code == fields[2]
                b1 == [b0 EXCEPT !.code = code, !.status_message = fields[3]]
            IN IF code = <<"0", "0">>
               THEN [buffer |-> b1, out |-> <<encode(ACCEPT_MSG)>>, ret |-> entity_body(b1)]
               ELSE IF code \in { <<"0", "1">>, <<"0", "2">> }
               THEN [buffer |-> b1, out |-> <<>>, ret |-> entity_body(b1)]
               ELSE IF Len(rest_of_header) # 2       \* ValueError at line 62
               THEN [buffer |-> b1, out |-> <<>>, ret |-> "raise"]
               ELSE
                LET b2 == [b1 EXCEPT !.script_invocation = rest_of_header[1]]
                    parts == Split(rest_of_header[2], <<":", " ">>, -1)
                    num_chars == IF Len(parts) < 2 THEN -1 ELSE StrToInt(parts[2])
                IN IF num_chars = -1                 \* IndexError / ValueError at line 65
                   THEN [buffer |-> b2, out |-> <<>>, ret |-> "raise"]
                   ELSE LET b3 == [b2 EXCEPT !.num_chars = num_chars]
                        IN IF code # <<"1", "2">> /\ code # <<"3", "0">>
                           THEN [buffer |-> b3, out |-> <<>>, ret |-> entity_body(b3)]
                           ELSE [buffer |-> b3, out |-> <<>>, ret |-> entity_body(b3)]

\* what bufferMessages returns as the entity body (line 78)
return_msg(b) == b.buf

\* handleResponses, lines 139-145, for the msg bufferMessages returned: the report
\* file is written and the buffer is reset.
handleMsg(b) ==
    LET msg == return_msg(b)
        b1 == [b EXCEPT !.num_chars = 0, !.buf = <<>>]
    IN /\ files' = Put(files, b.script_invocation, msg)
       /\ rbuffer' = b1
       /\ returned' = Append(returned, [script_invocation |-> b.script_invocation,
                                        num_chars |-> b.num_chars, had |-> b.buf,
                                        msg |-> msg, kept |-> b1.buf])
       /\ recv_pc' = "header"

\* where the receiver goes on after bufferMessages reached `ret` with buffer b
Continue(b, ret) ==
    IF ret = "msg" THEN handleMsg(b)
    ELSE /\ rbuffer' = b
         /\ recv_pc' = IF ret = "raise" THEN "crashed" ELSE IF ret = "body" THEN "body" ELSE "header"
         /\ UNCHANGED <<files, returned>>

\* the sock.recv of line 30 returns the next n bytes of the connection
RecvHeader(n) ==
    /\ recv_pc = "header"
    /\ n \in 1..Len(wire)
    /\ wire' = SubSeq(wire, n + 1, Len(wire))
    /\ LET r == response_header(rbuffer, SubSeq(wire, 1, n))
       IN /\ rsent' = rsent \o r.out
          /\ Continue(r.buffer, r.ret)
    /\ UNCHANGED <<agent_vars, cnc_vars>>

\* the sock.recv of line 72 returns the next n bytes of the connection
RecvBody(n) ==
    /\ recv_pc = "body"
    /\ n \in 1..Len(wire)
    /\ wire' = SubSeq(wire, n + 1, Len(wire))
    /\ LET decoded == decode(SubSeq(wire, 1, n))
           b == [rbuffer EXCEPT !.buf = rbuffer.buf \o decoded.val]
       IN IF decoded.ok
          THEN Continue(b, entity_body(b))
          ELSE Continue(rbuffer, "raise")     \* UnicodeDecodeError at line 77
    /\ UNCHANGED <<rsent, agent_vars, cnc_vars>>

\* The byte streams an agent writes on its connection: READY_MSG, then two of its
\* responses.
AgentResponses ==
    { Resp01,
      makeZOMPResponse(<<"1", "0">>, Msg10, <<"a">>, <<>>),
      makeZOMPResponse(<<"1", "2">>, Msg12, <<"a">>, <<"h", "i", "\n">>),
      makeZOMPResponse(<<"3", "0">>, Msg30, <<"a", " ", "1">>, <<"h", "i", "\n">>),
      makeZOMPResponse(<<"3", "0">>, Msg30, <<"a">>, <<>>),
      makeZOMPResponse(<<"3", "1">>, Msg31, <<"a">>, <<>>) }

Streams == { READY_MSG \o m1 \o m2 : m1 \in AgentResponses, m2 \in AgentResponses }

\* sizes of what one sock.recv(1024) returns: up to MaxChunk bytes, or all there is
ChunkSizes == (1..MaxChunk) \cup {Len(wire)}

InitDecode ==
    /\ InitAgent /\ InitCnc
    /\ wire \in Streams
    /\ rbuffer = ZOMPResponseBuffer
    /\ recv_pc = "header"
    /\ files = EmptyDict
    /\ rsent = <<>>
    /\ returned = <<>>

NextDecode ==
    \/ \E n \in ChunkSizes : RecvHeader(n)
    \/ \E n \in ChunkSizes : RecvBody(n)

SpecDecode == InitDecode /\ [][NextDecode]_vars

\* C6 (as claimed): every msg the decoder returns is exactly the first num_chars
\* characters of the buffer, and the characters after them stay in the buffer for
\* the next message.
C6_BodyExact ==
    \A i \in DOMAIN returned :
        LET r == returned[i]
        IN /\ r.msg = SubSeq(r.had, 1, r.num_chars)
           /\ r.kept = SubSeq(r.had, r.num_chars + 1, Len(r.had))

(***************************************************************************)
(* The codec on one message: one side's decoder is fed one message of the  *)
(* other side's encoder, in chunks.                                         *)
(***************************************************************************)
Ready_to_be_registered == <<"R", "e", "a", "d", "y", " ", "t", "o", " ", "b", "e", " ", "r", "e", "g", "i", "s", "t", "e", "r", "e", "d">>

\* the status message the agent sends with each code
status_message(code) ==
    CASE code = <<"0", "0">> -> Ready_to_be_registered
      [] code = <<"0", "1">> -> Bad_request
      [] code = <<"0", "2">> -> Script_not_found
      [] code = <<"1", "0">> -> Msg10
      [] code = <<"1", "1">> -> Msg11
      [] code = <<"1", "2">> -> Msg12
      [] code = <<"2", "0">> -> Msg20
      [] code = <<"2", "1">> -> Msg21
      [] code = <<"2", "2">> -> Msg22
      [] code = <<"3", "0">> -> Msg30
      [] code = <<"3", "1">> -> Msg31
      [] code = <<"3", "2">> -> Msg32

\* report bodies (the bytes check_output returned): ASCII text, and text with the
\* two-byte character
Bodies == { <<"h", "i", "\n">>, <<BYTE_C3, BYTE_A9, "\n">> }

\* invocations that go over the wire: the console's, and one of a script whose
\* name is the two-byte character
WireInvocations == Invocations \cup { <<E_ACUTE>> }

\* the agent's messages, each with the bytes the agent writes for it: READY_MSG,
\* the 0x errors, the answers without a body, and 12 / 30 with and without a body
ResponseSamples ==
    { [code |-> <<"0", "0">>, text |-> Ready_to_be_registered, invocation |-> <<>>, body |-> <<>>,
       bytes |-> encode(READY_MSG)] }
    \cup { [code |-> c, text |-> status_message(c), invocation |-> <<>>, body |-> <<>>,
            bytes |-> makeZOMPResponse(c, status_message(c), <<>>, <<>>)] :
            c \in { <<"0", "1">>, <<"0", "2">> } }
    \cup { [code |-> c, text |-> status_message(c), invocation |-> i, body |-> <<>>,
            bytes |-> makeZOMPResponse(c, status_message(c), i, <<>>)] :
            c \in { <<"1", "0">>, <<"1", "1">>, <<"1", "2">>, <<"2", "0">>, <<"2", "1">>, <<"2", "2">>,
                    <<"3", "0">>, <<"3", "1">>, <<"3", "2">> },
            i \in { <<"a">>, <<"a", " ", "1">> } }
    \cup { [code |-> c, text |-> status_message(c), invocation |-> i, body |-> b,
            bytes |-> makeZOMPResponse(c, status_message(c), i, b)] :
            c \in { <<"1", "2">>, <<"3", "0">> }, i \in { <<"a">>, <<E_ACUTE>> }, b \in Bodies }

\* the code of the protocol table for each console command
CommandCode(command) ==
    CASE command = "run" -> <<"1">> [] command = "stop" -> <<"2">> [] command = "report" -> <<"3">>

\* the controller's messages, each with the bytes the controller writes for it
RequestSamples ==
    { [code |-> <<"0">>, text |-> <<"A", "C", "C", "E", "P", "T">>, invocation |-> <<>>,
       bytes |-> encode(ACCEPT_MSG)],
      [code |-> <<"5">>, text |-> <<"N", "O", "T", " ", "U", "N", "D", "E", "R", "S", "T", "O", "O", "D">>,
       invocation |-> <<>>, bytes |-> encode(NOT_UNDERSTOOD)],
      [code |-> <<"9">>, text |-> <<"C", "L", "O", "S", "E">>, invocation |-> <<>>,
       bytes |-> encode(CLOSE_MSG)] }
    \cup { [code |-> CommandCode(c), text |-> upper(c), invocation |-> i,
            bytes |-> encode(makeZOMPRequest(c, i))] : c \in Commands, i \in WireInvocations }

\* One connection is registered.  Either the agent has written one message and the
\* receiver is about to read it, or the controller has written one and the agent is
\* about to read it.
InitCodec ==
    /\ buffer = ZOMPRequestBuffer
    /\ processes = EmptyDict
    /\ reports = EmptyDict
    /\ procs = <<>>
    /\ zompie_pc = "serving"
    /\ rbuffer = ZOMPResponseBuffer
    /\ recv_pc = "header"
    /\ files = EmptyDict
    /\ rsent = <<>>
    /\ returned = <<>>
    /\ zombies = << [sock |-> 1, process |-> "started"] >>
    /\ welcome_sock = "listening"
    /\ cnc_pc = "running"
    /\ ncmd = 0
    /\ \/ \E t \in ResponseSamples :
            /\ sent = <<t.bytes>>
            /\ wire = t.bytes
            /\ inbox = <<>>
            /\ conns = << [peer |-> "open", closed |-> FALSE, out |-> <<>>] >>
       \/ \E t \in RequestSamples :
            /\ conns = << [peer |-> "open", closed |-> FALSE, out |-> <<t.bytes>>] >>
            /\ inbox = t.bytes
            /\ sent = <<>>
            /\ wire = <<>>

\* sizes of what one sock.recv(1024) of the agent returns
AgentChunkSizes == (1..MaxChunk) \cup {Len(inbox)}

NextCodec ==
    \/ \E n \in ChunkSizes : RecvHeader(n)
    \/ \E n \in ChunkSizes : RecvBody(n)
    \/ \E n \in AgentChunkSizes : AgentRecv(n)

SpecCodec == InitCodec /\ [][NextCodec]_vars

\* what the receiver's decoder holds as the message: the fields of the buffer and
\* the body it returned last (as bytes), none as the empty body
DecodedResponse ==
    [code |-> rbuffer.code, text |-> rbuffer.status_message,
     invocation |-> rbuffer.script_invocation,
     body |-> IF returned = <<>> THEN <<>> ELSE encode(returned[Len(returned)].msg),
     raised |-> recv_pc = "crashed"]

\* what the agent's decoder holds as the message
DecodedRequest ==
    [code |-> buffer.code, text |-> buffer.command, invocation |-> buffer.script_invocation,
     raised |-> zompie_pc = "crashed"]

\* C12 (as claimed): a message of the agent, received whole by a new receiver, is
\* decoded to the code, text, invocation and body it was encoded from; a message of
\* the controller, received whole by a new agent, to its code, text and invocation.
C12_RoundTrip ==
    [][ /\ \A t \in ResponseSamples :
            (wire = t.bytes /\ rbuffer = ZOMPResponseBuffer /\ RecvHeader(Len(wire))) =>
                DecodedResponse' = [code |-> t.code, text |-> t.text, invocation |-> t.invocation,
                                    body |-> t.body, raised |-> FALSE]
        /\ \A t \in RequestSamples :
            (inbox = t.bytes /\ buffer = ZOMPRequestBuffer /\ AgentRecv(Len(inbox))) =>
                DecodedRequest' = [code |-> t.code, text |-> t.text, invocation |-> t.invocation,
                                   raised |-> FALSE]
      ]_vars

\* the decoders' results for the message m received in one chunk by a new decoder
WholeResponse(m) ==
    LET r == response_header(ZOMPResponseBuffer, m)
    IN [code |-> r.buffer.code, text |-> r.buffer.status_message,
        invocation |-> r.buffer.script_invocation,
        body |-> IF r.ret = "msg" THEN encode(return_msg(r.buffer)) ELSE <<>>,
        raised |-> r.ret = "raise"]

WholeRequest(m) ==
    LET r == bufferMessages(ZOMPRequestBuffer, m)
    IN [code |-> r.buffer.code, text |-> r.buffer.command,
        invocation |-> r.buffer.script_invocation, raised |-> r.ret.kind = "raise"]

\* C13 (as claimed): once a decoder has been through the bytes of the message (or
\* has stopped on the way), its result is the result of receiving the message in
\* one chunk, however the bytes were split into chunks.
C13_PartialRead ==
    /\ (conns[1].out = <<>> /\ (wire = <<>> \/ recv_pc = "crashed")) =>
            DecodedResponse = WholeResponse(sent[1])
    /\ (conns[1].out # <<>> /\ (inbox = <<>> \/ zompie_pc = "crashed")) =>
            DecodedRequest = WholeRequest(conns[1].out[1])

(***************************************************************************)
(* The controller's main loop: zomp_cnc.py main                            *)
(***************************************************************************)
\* what the operator types at selectTarget's prompt: a number, "back" or "BACK"
Choices == { [kind |-> "digits", val |-> n] : n \in 0..(MaxConns + 1) }
           \cup { [kind |-> "back", val |-> 0], [kind |-> "BACK", val |-> 0] }

\* selectTarget(zombies) for the line `choice`: the target, -1 ("No zombies
\* available", or "BACK": the loop ends), -2 where int("back") raises ValueError,
\* -3 where the line is refused and the prompt is repeated.
selectTarget(choice) ==
    IF Len(zombies) = 0 THEN -1
    ELSE IF (choice.kind # "digits" \/ choice.val > Len(zombies)) /\ choice.kind # "back"
    THEN IF choice.kind = "BACK" THEN -1 ELSE -3
    ELSE IF choice.kind = "digits" THEN choice.val ELSE -2

\* the registry entries a target addresses, in the order the code writes to them
Targets(target) ==
    IF target = 0 THEN [i \in 1..Len(zombies) |-> zombies[i].sock]
    ELSE IF target > 0 THEN <<zombies[target].sock>>
    ELSE <<>>

\* sock.send on a connection can raise (BrokenPipeError, ConnectionResetError) once
\* the agent's end is closed; it can also still be accepted by the kernel.
CanRaise(c) == conns[c].peer = "closed"

\* zombie.sock.send(msg) for each socket of `socks` in order; fail = 0 when every
\* send returns, fail = f when the f-th raises: the sends before it are done.
SendEach(socks, msg, fail) ==
    LET done == IF fail = 0 THEN Len(socks) ELSE fail - 1
    IN [c \in DOMAIN conns |->
          IF \E j \in 1..done : socks[j] = c
          THEN [conns[c] EXCEPT !.out = Append(@, msg)]
          ELSE conns[c]]

\* main, lines 192-197: a connection is accepted and registered, its receiver started
Accept ==
    /\ cnc_pc = "running"
    /\ Len(conns) < MaxConns
    /\ conns' = Append(conns, [peer |-> "open", closed |-> FALSE, out |-> <<>>])
    /\ zombies' = Append(zombies, [sock |-> Len(conns) + 1, process |-> "started"])
    /\ UNCHANGED <<welcome_sock, cnc_pc, ncmd, agent_vars, recv_vars>>

AgentDisconnect_prunes(c) ==
    /\ conns[c].peer = "open"
    /\ conns' = [conns EXCEPT ![c].peer = "closed"]
    /\ zombies' = SelectSeq(zombies, LAMBDA z : z.sock # c)
    /\ UNCHANGED <<welcome_sock, cnc_pc, ncmd, agent_vars, recv_vars>>

\* an agent's end of a connection closes (the agent exits or dies)
AgentDisconnect(c) ==
    /\ conns[c].peer = "open"
    /\ conns' = [conns EXCEPT ![c].peer = "closed"]
    /\ UNCHANGED <<zombies, welcome_sock, cnc_pc, ncmd, agent_vars, recv_vars>>

\* main, lines 174-188: a RUN / STOP / REPORT line with a script invocation
Dispatch(command, script_invocation, choice, fail) ==
    /\ cnc_pc = "running"
    /\ ncmd < MaxCmds
    /\ ncmd' = ncmd + 1
    /\ LET target == selectTarget(choice)
           socks == Targets(target)
       IN /\ target # -3
          /\ fail \in 0..Len(socks)
          /\ fail # 0 => CanRaise(socks[fail])
          /\ conns' = SendEach(socks, encode(makeZOMPRequest(command, script_invocation)), fail)
          /\ cnc_pc' = IF target = -2 \/ fail # 0 THEN "crashed" ELSE cnc_pc
    /\ UNCHANGED <<zombies, welcome_sock, agent_vars, recv_vars>>

\* main, lines 164-171: EXIT.  For each zombie in order: send CLOSE_MSG, close the
\* socket, terminate the receiver; then exit(1).  A send that raises ends the loop
\* there: nothing catches it.
Exit(fail) ==
    /\ cnc_pc = "running"
    /\ ncmd < MaxCmds
    /\ ncmd' = ncmd + 1
    /\ welcome_sock' = "closed"
    /\ LET socks == Targets(0)
           done == IF fail = 0 THEN Len(zombies) ELSE fail - 1
           sent_to == SendEach(socks, encode(CLOSE_MSG), fail)
       IN /\ fail \in 0..Len(socks)
          /\ fail # 0 => CanRaise(socks[fail])
          /\ conns' = [c \in DOMAIN conns |->
                          IF \E j \in 1..done : socks[j] = c
                          THEN [sent_to[c] EXCEPT !.closed = TRUE]
                          ELSE sent_to[c]]
          /\ zombies' = [i \in 1..Len(zombies) |->
                          IF i <= done THEN [zombies[i] EXCEPT !.process = "terminated"]
                          ELSE zombies[i]]
          /\ cnc_pc' = IF fail = 0 THEN "exited" ELSE "crashed"
    /\ UNCHANGED <<agent_vars, recv_vars>>

\* main, lines 172-176 and 190-191: HELP, a command without a script invocation,
\* an unknown command
OtherLine ==
    /\ cnc_pc = "running"
    /\ ncmd < MaxCmds
    /\ ncmd' = ncmd + 1
    /\ UNCHANGED <<zombies, conns, welcome_sock, cnc_pc, agent_vars, recv_vars>>

\* the script invocations typed at the controller's console in these runs
ConsoleInvocations == { <<"a">> }

NextCnc ==
    \/ Accept
    \/ \E c \in DOMAIN conns : AgentDisconnect(c)
    \/ \E command \in Commands, i \in ConsoleInvocations, choice \in Choices, fail \in 0..MaxConns :
            Dispatch(command, i, choice, fail)
    \/ \E fail \in 0..MaxConns : Exit(fail)
    \/ OtherLine

SpecCnc == Init /\ [][NextCnc]_vars

(***************************************************************************)
(* The receiver task when the agent closes the connection                  *)
(***************************************************************************)
\* The sock.recv of line 30 or 72 returns zero bytes: everything the agent wrote has
\* been received and the agent's end is closed.  bufferMessages returns None (line
\* 33 or 75), `if msg:` fails, and the while True of handleResponses calls
\* bufferMessages again, which comes to the same sock.recv.
RecvEOF(c) ==
    /\ recv_pc \in {"header", "body"}
    /\ wire = <<>>
    /\ conns[c].peer = "closed"
    /\ recv_pc' = recv_pc
    /\ UNCHANGED <<wire, rbuffer, files, rsent, returned, agent_vars, cnc_vars>>

\* One agent is registered and has written READY_MSG and two responses.
InitReceiver ==
    /\ InitAgent
    /\ wire \in Streams
    /\ rbuffer = ZOMPResponseBuffer
    /\ recv_pc = "header"
    /\ files = EmptyDict
    /\ rsent = <<>>
    /\ returned = <<>>
    /\ zombies = << [sock |-> 1, process |-> "started"] >>
    /\ conns = << [peer |-> "open", closed |-> FALSE, out |-> <<>>] >>
    /\ welcome_sock = "listening"
    /\ cnc_pc = "running"
    /\ ncmd = 0

handleResponses ==
    \/ \E n \in ChunkSizes : RecvHeader(n)
    \/ \E n \in ChunkSizes : RecvBody(n)
    \/ RecvEOF(1)

NextReceiver ==
    \/ handleResponses
    \/ AgentDisconnect(1)

\* a sock.recv of the receiver returns: some of the bytes that have arrived leave
\* the connection
recv_returns ==
    /\ recv_pc \in {"header", "body"}
    /\ \E n \in ChunkSizes : n \in 1..Len(wire) /\ wire' = SubSeq(wire, n + 1, Len(wire))

\* The receiver process is scheduled: while bytes have arrived its sock.recv
\* returns.  (Only RecvHeader and RecvBody take bytes off the connection.)
SpecReceiver == InitReceiver /\ [][NextReceiver]_vars /\ WF_wire(recv_returns)

\* C14 (as claimed): once the agent's end of the connection is closed, the receiver
\* task of the connection ends; and the registry keeps the agent's entry.
C14_ReceiverEnds ==
    /\ (conns[1].peer = "closed") ~> (recv_pc = "ended")
    /\ [](Len(zombies) = 1 /\ zombies[1].sock = 1)

(***************************************************************************)
(* The agent on a stream of requests: the controller has written two       *)
(* requests to the connection, the agent receives them in chunks.          *)
(***************************************************************************)
\* The controller's end of connection c is closed with no CLOSE_MSG written (the
\* controller process is gone).
ControllerGone(c) ==
    /\ ~conns[c].closed
    /\ conns' = [conns EXCEPT ![c].closed = TRUE]
    /\ UNCHANGED <<zombies, welcome_sock, cnc_pc, ncmd, agent_vars, recv_vars>>

\* The sock.recv of line 25 returns zero bytes: everything the controller wrote has
\* been received and the controller's end is closed.  bufferMessages returns None
\* (line 28); main's `if script_invocation:` fails and buffer.code, left from the
\* last header, is tested for "9"; then the while True comes back to the sock.recv.
AgentRecvEOF(c) ==
    /\ zompie_pc = "serving"
    /\ inbox = <<>>
    /\ conns[c].closed
    /\ IF buffer.code = <<"9">>
       THEN main_CLOSE
       ELSE /\ sent' = <<>>
            /\ UNCHANGED <<processes, reports, procs, zompie_pc>>
    /\ UNCHANGED <<buffer, inbox, recv_vars, cnc_vars>>

\* A sock.recv or sock.send of the agent raises ConnectionResetError /
\* BrokenPipeError: the agent has written to the connection and the controller's
\* end is closed.  Nothing catches it.
AgentConnReset(c) ==
    /\ zompie_pc = "serving"
    /\ conns[c].closed
    /\ wire # <<>>
    /\ zompie_pc' = "crashed"
    /\ sent' = <<>>
    /\ UNCHANGED <<buffer, processes, reports, procs, inbox, recv_vars, cnc_vars>>

\* the well-formed requests of these runs: each command for a script that exists
\* and for one that does not
StreamRequests == { encode(makeZOMPRequest(c, i)) : c \in Commands, i \in { <<"a">>, <<"n">> } }

InitStream ==
    /\ buffer = ZOMPRequestBuffer
    /\ processes = EmptyDict
    /\ reports = EmptyDict
    /\ procs = <<>>
    /\ sent = <<>>
    /\ zompie_pc = "serving"
    /\ InitRecv
    /\ zombies = << [sock |-> 1, process |-> "started"] >>
    /\ welcome_sock = "listening"
    /\ cnc_pc = "running"
    /\ ncmd = 0
    /\ \E r1, r2 \in StreamRequests :
          /\ conns = << [peer |-> "open", closed |-> FALSE, out |-> <<r1, r2>>] >>
          /\ inbox = r1 \o r2

NextStream ==
    \/ \E n \in AgentChunkSizes : AgentTurn(n)
    \/ \E p \in DOMAIN procs : \E output \in Outputs : storeResult(p, output)
    \/ \E p \in DOMAIN procs : ProcessExit(p)
    \/ \E p \in DOMAIN procs : storeResultRaises(p)
    \/ ControllerGone(1)
    \/ AgentRecvEOF(1)
    \/ AgentConnReset(1)

\* a sock.recv of the agent returns: some of the bytes that have arrived leave the
\* connection
agent_recv_returns ==
    /\ zompie_pc = "serving"
    /\ \E n \in AgentChunkSizes : n \in 1..Len(inbox) /\ inbox' = SubSeq(inbox, n + 1, Len(inbox))

\* The agent is scheduled: while bytes have arrived its sock.recv returns.  (Only
\* AgentTurn takes bytes off the connection.)
SpecStream == InitStream /\ [][NextStream]_vars /\ WF_inbox(agent_recv_returns)

\* C15 (as claimed): once the controller's end of the connection is closed, with no
\* CLOSE sent, the agent's serve loop ends.
C15_ServeLoopEnds ==
    conns[1].closed ~> (zompie_pc # "serving")

\* the places of the connection's bytes w where a message starts
MessageStarts(w) == { i \in 1..Len(w) : i + Len(Version) - 1 <= Len(w) /\ SubSeq(w, i, i + Len(Version) - 1) = Version }

\* the k-th message of the bytes w
NthMessage(w, k) ==
    LET S == MessageStarts(w)
        start(j) == CHOOSE i \in S : Cardinality({ x \in S : x < i }) = j - 1
    IN SubSeq(w, start(k), IF k < Cardinality(S) THEN start(k + 1) - 1 ELSE Len(w))

\* the lines of a message's header
HeaderLines(m) == Split(SubSeq(m, 1, Find(m, signal) - 1), CRLF, -1)

\* the response answers the request: it is 02 Script not found, or its code is of
\* the request's command and it names the request's script invocation
AnswerTo(req, resp) ==
    LET code == SubSeq(resp, Len(Version) + 2, Len(Version) + 3)
    IN /\ Find(resp, signal) # 0
       /\ \/ code = <<"0", "2">>
          \/ /\ code[1] = req[Len(Version) + 2]
             /\ Len(HeaderLines(resp)) >= 2
             /\ HeaderLines(resp)[2] = HeaderLines(req)[2]

\* C19 (as claimed): the responses the agent has written are, in order, answers to
\* the first requests of the connection, one each; and every request is answered
\* in the end (unless the connection is closed or the agent has stopped serving).
C19_EachRequestAnswered ==
    /\ [](LET n == Cardinality(MessageStarts(wire))
          IN /\ n <= Len(conns[1].out)
             /\ n > 0 => 1 \in MessageStarts(wire)
             /\ \A k \in 1..n : AnswerTo(conns[1].out[k], NthMessage(wire, k)))
    /\ <>(\/ Cardinality(MessageStarts(wire)) = Len(conns[1].out)
          \/ conns[1].closed
          \/ zompie_pc # "serving")

(***************************************************************************)
(* One connection with both ends followed: what the receiver task sends    *)
(* arrives at the agent, what the agent sends arrives at the receiver.     *)
(***************************************************************************)
\* the sock.recv of line 30 returns the next n bytes of the connection, and what
\* bufferMessages sends (lines 48, 55) is on its way to the agent
ReceiverTurn(n) ==
    /\ recv_pc = "header"
    /\ n \in 1..Len(wire)
    /\ wire' = SubSeq(wire, n + 1, Len(wire))
    /\ LET r == response_header(rbuffer, SubSeq(wire, 1, n))
       IN /\ rsent' = rsent \o r.out
          /\ inbox' = inbox \o Concat(r.out)
          /\ Continue(r.buffer, r.ret)
    /\ UNCHANGED <<buffer, processes, reports, procs, sent, zompie_pc, cnc_vars>>

\* bytes that are no header line of the protocol
Junk == <<"x">>

\* single messages an agent can write to the connection: its registration, an
\* error reply, a report nobody asked for, a status line that does not split, a
\* code the controller does not know, and messages with bytes before or after
AgentWrites ==
    { READY_MSG, Resp01, Resp02,
      makeZOMPResponse(<<"1", "2">>, Msg12, <<"a">>, <<"h", "i", "\n">>),
      Junk \o signal,
      Junk \o signal \o Junk \o CRLF,
      Junk \o CRLF \o READY_MSG,
      Junk,
      encode(NOT_UNDERSTOOD) }

\* single messages the controller's side can write to the connection: its two
\* automatic replies, requests the agent answers with 01 or 02, and messages of
\* the other direction
ControllerWrites ==
    { encode(NOT_UNDERSTOOD), encode(ACCEPT_MSG),
      encode(makeZOMPRequest("run", <<"n">>)),
      Junk \o signal,
      Junk \o signal \o Junk \o CRLF,
      Junk,
      Resp01, READY_MSG }
    \cup MalformedRequests \cup NoInvocationRequests \cup UnknownRequests

\* One agent is registered; one message has been written, by one of the two sides.
InitSession ==
    /\ buffer = ZOMPRequestBuffer
    /\ processes = EmptyDict
    /\ reports = EmptyDict
    /\ procs = <<>>
    /\ sent = <<>>
    /\ zompie_pc = "serving"
    /\ rbuffer = ZOMPResponseBuffer
    /\ recv_pc = "header"
    /\ files = EmptyDict
    /\ rsent = <<>>
    /\ returned = <<>>
    /\ zombies = << [sock |-> 1, process |-> "started"] >>
    /\ conns = << [peer |-> "open", closed |-> FALSE, out |-> <<>>] >>
    /\ welcome_sock = "listening"
    /\ cnc_pc = "running"
    /\ ncmd = 0
    /\ \/ wire \in AgentWrites /\ inbox = <<>>
       \/ inbox \in ControllerWrites /\ wire = <<>>

NextSession ==
    \/ \E n \in AgentChunkSizes : AgentTurn(n)
    \/ \E n \in ChunkSizes : ReceiverTurn(n)
    \/ \E n \in ChunkSizes : RecvBody(n)

\* Both processes are scheduled: while bytes have arrived, a sock.recv returns.
SpecSession ==
    InitSession /\ [][NextSession]_vars /\ WF_wire(recv_returns) /\ WF_inbox(agent_recv_returns)

\* a side has no automatic reply pending: it has received every byte written to
\* it and its buffer holds no complete header (or its process has ended)
AgentQuiet == zompie_pc # "serving" \/ (inbox = <<>> /\ Find(buffer.buf, signal) = 0)
ReceiverQuiet ==
    \/ recv_pc \notin {"header", "body"}
    \/ wire = <<>> /\ (recv_pc = "header" => Find(rbuffer.buf, signal) = 0)

\* C20: from one malformed or unexpected message on the connection, the receiver
\* task sends at most two automatic replies (NOT UNDERSTOOD, ACCEPT), the agent
\* answers each of them at most once, and from some point on neither side has an
\* automatic reply pending and nothing is written any more.
C20_NoPingPong ==
    /\ [](Len(rsent) <= 2)
    /\ [][ AgentQuiet /\ ReceiverQuiet => UNCHANGED <<wire, inbox, rsent>> ]_vars
    /\ [][ Len(wire') > Len(wire) =>
              /\ wire' \in { wire \o Resp01, wire \o Resp02 }
              /\ Len(inbox') < Len(inbox) ]_vars
    /\ <>[](AgentQuiet /\ ReceiverQuiet)

\* the longest chain: the receiver answered a status line that does not split with
\* NOT UNDERSTOOD, the agent answered that with 01 Bad request, which arrived
\* behind bytes left in the receiver's buffer and was answered with NOT UNDERSTOOD
\* again; the agent's second 01 was decoded and only logged, and both sides wait.
C20_Witness ==
    /\ rsent = <<encode(NOT_UNDERSTOOD), encode(NOT_UNDERSTOOD)>>
    /\ sent = <<Resp01>>
    /\ rbuffer.code = <<"0", "1">>
    /\ rbuffer.buf = <<>>
    /\ wire = <<>> /\ inbox = <<>>
    /\ zompie_pc = "serving" /\ recv_pc = "header"

\* C7 (as claimed): a dispatch to target 0 writes exactly one encoded request to
\* each registered connection, a dispatch to target i (1 <= i <= N) exactly one to
\* the i-th entry's connection, and nothing is written to any other connection.
C7_DispatchFanOut ==
    [][ \A command \in Commands, i \in ConsoleInvocations, fail \in 0..MaxConns :
        \A t \in 0..Len(zombies) :
            Dispatch(command, i, [kind |-> "digits", val |-> t], fail) =>
                \A c \in DOMAIN conns :
                    conns'[c].out =
                        IF \E j \in 1..Len(zombies) : zombies[j].sock = c /\ (t = 0 \/ t = j)
                        THEN Append(conns[c].out, makeZOMPRequest(command, i))
                        ELSE conns[c].out
      ]_vars

\* C18: every step of the controller keeps the registry's entries in their places
\* (the i-th entry stays the i-th, on the same connection, and until shutdown its
\* receiver is the one that was started for it); the registry grows only by an
\* accept, which appends exactly one entry for the new connection with one receiver
\* started; and no two entries share a connection.
C18_RegistryAppendOnly ==
    /\ [][ /\ Len(zombies') >= Len(zombies)
           /\ \A i \in 1..Len(zombies) : zombies'[i].sock = zombies[i].sock
           /\ cnc_pc' = "running" => \A i \in 1..Len(zombies) : zombies'[i] = zombies[i]
           /\ Len(zombies') # Len(zombies) => Accept
           /\ Accept =>
                /\ Len(conns') = Len(conns) + 1
                /\ zombies' = Append(zombies, [sock |-> Len(conns'), process |-> "started"])
         ]_vars
    /\ [](\A i, j \in 1..Len(zombies) : zombies[i].sock = zombies[j].sock => i = j)

\* three agents are registered, the first one has disconnected, a request has been
\* dispatched to the third, and the controller is running
C18_Witness ==
    /\ cnc_pc = "running"
    /\ Len(zombies) >= 3
    /\ conns[zombies[1].sock].peer = "closed"
    /\ conns[zombies[3].sock].out # <<>>
    /\ \A i \in 1..Len(zombies) : zombies[i] = [sock |-> i, process |-> "started"]

\* C10 (as claimed): once EXIT has been handled (the listening socket is closed),
\* every registered agent has been sent CLOSE_MSG last, every connection is closed,
\* every receiver is terminated and the controller has exited.
C10_Shutdown ==
    welcome_sock = "closed" =>
        /\ \A i \in 1..Len(zombies) :
              LET c == conns[zombies[i].sock]
              IN /\ c.out # <<>> /\ c.out[Len(c.out)] = CLOSE_MSG
                 /\ c.closed
                 /\ zombies[i].process = "terminated"
        /\ cnc_pc = "exited"

====
